---- MODULE Spec2Model ----
(***************************************************************************)
(* Model of lccc-siphash: the SipHash state engine (SipHashState and its   *)
(* target-dependent realisations), the word-granular RawSipHasher<C,D>     *)
(* the byte-stream SipHasher<C,D> (with and without write_str) and the     *)
(* generator SiphashRng<C,D> built on the raw hasher.                      *)
(*                                                                         *)
(* A u64 is a tuple of four 16-bit limbs, least significant limb first;    *)
(* all word arithmetic wraps modulo 2^64.  A byte slice is a sequence of   *)
(* numbers in 0..255.  An __m128i is a pair <<lane0, lane1>> of u64.       *)
(***************************************************************************)
EXTENDS Integers, Sequences, FiniteSets, TLC

(***************************************************************************)
(* 64-bit words                                                            *)
(***************************************************************************)
LimbBase == 2 ^ 16

ByteBase == 2 ^ 8

Pow2(n) == 2 ^ n

\* `let a = v; F(a)`: v is computed once, then F of its value
Bind(v, F(_)) == CHOOSE r \in { F(a) : a \in {v} } : TRUE

RECURSIVE BitOp(_, _, _, _)
\* bitwise combination of the low n bits of a and b; op is "xor", "and", "or"
BitOp(op, a, b, n) ==
  IF n = 0 THEN 0
  ELSE LET x == a % 2
           y == b % 2
           z == CASE op = "xor" -> (x + y) % 2
                  [] op = "and" -> x * y
                  [] OTHER      -> IF x + y > 0 THEN 1 ELSE 0
       IN z + 2 * BitOp(op, a \div 2, b \div 2, n - 1)

XorTab == [a \in 0..255 |-> [b \in 0..255 |-> BitOp("xor", a, b, 8)]] @@ <<>>

Xor16(a, b) == XorTab[a % 256][b % 256] + 256 * XorTab[a \div 256][b \div 256]

AndTab == [a \in 0..255 |-> [b \in 0..255 |-> BitOp("and", a, b, 8)]] @@ <<>>

OrTab == [a \in 0..255 |-> [b \in 0..255 |-> BitOp("or", a, b, 8)]] @@ <<>>

And16(a, b) == AndTab[a % 256][b % 256] + 256 * AndTab[a \div 256][b \div 256]

Or16(a, b) == OrTab[a % 256][b % 256] + 256 * OrTab[a \div 256][b \div 256]

\* the u64 with the given 16-bit groups, most significant first (as written in hex)
W64(h3, h2, h1, h0) == <<h0, h1, h2, h3>>

Zero64 == <<0, 0, 0, 0>>

\* a small non-negative integer as a u64
U64(n) == <<n % LimbBase, n \div LimbBase, 0, 0>>

\* wrapping_add
Add64(a, b) ==
  LET s1 == a[1] + b[1]
      s2 == a[2] + b[2] + (s1 \div LimbBase)
      s3 == a[3] + b[3] + (s2 \div LimbBase)
      s4 == a[4] + b[4] + (s3 \div LimbBase)
  IN <<s1 % LimbBase, s2 % LimbBase, s3 % LimbBase, s4 % LimbBase>>

\* wrapping_sub
Sub64(a, b) ==
  LET d1 == a[1] - b[1]
      d2 == a[2] - b[2] - (IF d1 < 0 THEN 1 ELSE 0)
      d3 == a[3] - b[3] - (IF d2 < 0 THEN 1 ELSE 0)
      d4 == a[4] - b[4] - (IF d3 < 0 THEN 1 ELSE 0)
  IN <<d1 % LimbBase, d2 % LimbBase, d3 % LimbBase, d4 % LimbBase>>

Xor64(a, b) == <<Xor16(a[1], b[1]), Xor16(a[2], b[2]), Xor16(a[3], b[3]), Xor16(a[4], b[4])>>

And64(a, b) == <<And16(a[1], b[1]), And16(a[2], b[2]), And16(a[3], b[3]), And16(a[4], b[4])>>

Or64(a, b) == <<Or16(a[1], b[1]), Or16(a[2], b[2]), Or16(a[3], b[3]), Or16(a[4], b[4])>>

\* limb i (1..4) of x, zero outside the word
Limb(x, i) == IF i >= 1 /\ i <= 4 THEN x[i] ELSE 0

\* x << n for 0 <= n; zero once n >= 64
Shl64(x, n) ==
  IF n >= 64 THEN Zero64
  ELSE LET q == n \div 16
           r == n % 16
           l(i) == (Limb(x, i - q) % Pow2(16 - r)) * Pow2(r)
                     + (Limb(x, i - q - 1) \div Pow2(16 - r))
       IN <<l(1), l(2), l(3), l(4)>>

\* x >> n (logical) for 0 <= n; zero once n >= 64
Shr64(x, n) ==
  IF n >= 64 THEN Zero64
  ELSE LET q == n \div 16
           r == n % 16
           l(i) == (Limb(x, i + q) \div Pow2(r))
                     + (Limb(x, i + q + 1) % Pow2(r)) * Pow2(16 - r)
       IN <<l(1), l(2), l(3), l(4)>>

\* u64::rotate_left, 0 <= n < 64: the limbs move up cyclically
Rotl64(x, n) ==
  LET q == n \div 16
      r == n % 16
      c(i) == x[((i - 1) % 4) + 1]
      l(i) == (c(i - q + 4) % Pow2(16 - r)) * Pow2(r) + (c(i - q + 3) \div Pow2(16 - r))
  IN <<l(1), l(2), l(3), l(4)>>

\* the eight bytes of a u64, least significant first
BytesOf(x) ==
  <<x[1] % ByteBase, x[1] \div ByteBase, x[2] % ByteBase, x[2] \div ByteBase,
    x[3] % ByteBase, x[3] \div ByteBase, x[4] % ByteBase, x[4] \div ByteBase>>

\* u64::from_le_bytes
from_le_bytes(b) ==
  <<b[1] + ByteBase * b[2], b[3] + ByteBase * b[4],
    b[5] + ByteBase * b[6], b[7] + ByteBase * b[8]>>

\* u64::from_be_bytes
from_be_bytes(b) == from_le_bytes(<<b[8], b[7], b[6], b[5], b[4], b[3], b[2], b[1]>>)

\* u64::swap_bytes
swap_bytes(x) == from_be_bytes(BytesOf(x))

(***************************************************************************)
(* The state engine.  sys names the realisation the build selects          *)
(* (siphash.rs, mod sys): "generic" keeps the four words <<v0,v1,v2,v3>>,  *)
(* "avx2" and "sse3" (siphash/x86.rs) keep two vectors <<s0, s1>> with     *)
(* s0 = [v0, v2] and s1 = [v1, v3].                                        *)
(***************************************************************************)
SIPHASH_MAG1 == W64(\H736f, \H6d65, \H7073, \H6575)

SIPHASH_MAG2 == W64(\H646f, \H7261, \H6e64, \H6f6d)

SIPHASH_MAG3 == W64(\H6c79, \H6765, \H6e65, \H7261)

SIPHASH_MAG4 == W64(\H7465, \H6462, \H7974, \H6573)

\* ---- x86 intrinsics, on vectors <<lane0, lane1>> ----
mm_set_epi64x(e1, e0) == <<e0, e1>>

mm_add_epi64(a, b) == <<Add64(a[1], b[1]), Add64(a[2], b[2])>>

mm_sub_epi64(a, b) == <<Sub64(a[1], b[1]), Sub64(a[2], b[2])>>

mm_xor_si128(a, b) == <<Xor64(a[1], b[1]), Xor64(a[2], b[2])>>

mm_or_si128(a, b) == <<Or64(a[1], b[1]), Or64(a[2], b[2])>>

mm_unpacklo_epi64(a, b) == <<a[1], b[1]>>

mm_unpackhi_epi64(a, b) == <<a[2], b[2]>>

\* a shift count held in a u64: counts above 63 clear the lane
ShiftCount(c) == IF c[2] = 0 /\ c[3] = 0 /\ c[4] = 0 /\ c[1] < 64 THEN c[1] ELSE 64

\* both lanes shifted by the low lane of count
mm_sll_epi64(a, count) == <<Shl64(a[1], ShiftCount(count[1])), Shl64(a[2], ShiftCount(count[1]))>>

mm_srl_epi64(a, count) == <<Shr64(a[1], ShiftCount(count[1])), Shr64(a[2], ShiftCount(count[1]))>>

\* each lane shifted by its own lane of count
mm_sllv_epi64(a, count) == <<Shl64(a[1], ShiftCount(count[1])), Shl64(a[2], ShiftCount(count[2]))>>

mm_srlv_epi64(a, count) == <<Shr64(a[1], ShiftCount(count[1])), Shr64(a[2], ShiftCount(count[2]))>>

\* the 32-bit element j (0..3) of a vector, as its two limbs
Elem32(a, j) == LET w == a[(j \div 2) + 1]
                IN IF j % 2 = 0 THEN <<w[1], w[2]>> ELSE <<w[3], w[4]>>

\* dst element i is src element (imm >> 2i) & 3
mm_shuffle_epi32(a, imm) ==
  LET e(i) == Elem32(a, (imm \div Pow2(2 * i)) % 4)
  IN <<e(0) \o e(1), e(2) \o e(3)>>

\* #[cfg(target_feature = "avx2")] rotate_lanes_epi64
rotate_lanes_epi64_avx2(v, count) ==
  Bind(mm_sub_epi64(mm_set_epi64x(U64(64), U64(64)), count), LAMBDA rshift :
  Bind(mm_sllv_epi64(v, count), LAMBDA left :
  Bind(mm_srlv_epi64(v, rshift), LAMBDA right :
    mm_or_si128(left, right))))

\* #[cfg(not(target_feature = "avx2"))] rotate_lanes_epi64
rotate_lanes_epi64_sse(v, count) ==
  Bind(mm_sub_epi64(mm_set_epi64x(U64(64), U64(64)), count), LAMBDA rshift :
  Bind(mm_unpacklo_epi64(count, count), LAMBDA lsh1 :
  Bind(mm_sub_epi64(mm_unpackhi_epi64(count, count), lsh1), LAMBDA lsh2 :
  Bind(mm_unpackhi_epi64(rshift, rshift), LAMBDA rsh1 :
  Bind(mm_sub_epi64(mm_unpacklo_epi64(rshift, rshift), rsh1), LAMBDA rsh2 :
  Bind(mm_sll_epi64(v, lsh1), LAMBDA int1 :
  Bind(mm_sll_epi64(int1, lsh2), LAMBDA int2 :
  Bind(mm_srl_epi64(v, rsh1), LAMBDA int3 :
  Bind(mm_srl_epi64(int3, rsh2), LAMBDA int4 :
  Bind(mm_shuffle_epi32(int2, 30), LAMBDA int5 :
  Bind(mm_shuffle_epi32(int4, 30), LAMBDA int6 :
  Bind(mm_unpacklo_epi64(int1, int5), LAMBDA sll_res :
  Bind(mm_unpacklo_epi64(int3, int6), LAMBDA srl_res :
    mm_or_si128(sll_res, srl_res))))))))))))))

rotate_lanes_epi64(sys, v, count) ==
  IF sys = "avx2" THEN rotate_lanes_epi64_avx2(v, count)
                  ELSE rotate_lanes_epi64_sse(v, count)

\* sse::SipHashState::halfround
halfround(sys, s0, s1, rotate) ==
  Bind(mm_add_epi64(s0, s1), LAMBDA a0 :
  Bind(rotate_lanes_epi64(sys, s1, rotate), LAMBDA b0 :
  Bind(mm_xor_si128(b0, a0), LAMBDA b1 :
  Bind(mm_shuffle_epi32(a0, 30), LAMBDA a1 :
    <<a1, b1>>))))

\* sse::SipHashState::round
x86_round(sys, st) ==
  Bind(halfround(sys, st[1], st[2], mm_set_epi64x(U64(16), U64(13))), LAMBDA h1 :
  Bind(halfround(sys, h1[1], h1[2], mm_set_epi64x(U64(21), U64(17))), LAMBDA h2 :
    h2))

\* from_keys pairing the words in array order, [s0,s1] and [s2,s3]
x86_from_keys_arrayorder(k0, k1) ==
  <<<<Xor64(k0, SIPHASH_MAG1), Xor64(k1, SIPHASH_MAG2)>>,
    <<Xor64(k0, SIPHASH_MAG3), Xor64(k1, SIPHASH_MAG4)>>>>

x86_from_keys(k0, k1) ==
  <<<<Xor64(k0, SIPHASH_MAG1), Xor64(k0, SIPHASH_MAG3)>>,
    <<Xor64(k1, SIPHASH_MAG2), Xor64(k1, SIPHASH_MAG4)>>>>

\* update_before_rounds with the word in the low lane of the vector
x86_update_before_rounds_lowlane(st, word) ==
  <<st[1], mm_xor_si128(st[2], mm_set_epi64x(Zero64, word))>>

x86_update_before_rounds(st, word) ==
  <<st[1], mm_xor_si128(st[2], mm_set_epi64x(word, Zero64))>>

x86_update_after_rounds(st, word) ==
  <<mm_xor_si128(st[1], mm_set_epi64x(Zero64, word)), st[2]>>

x86_update_before_final(st) ==
  <<mm_xor_si128(st[1], mm_set_epi64x(U64(255), Zero64)), st[2]>>

x86_finish(st) ==
  LET x0 == mm_xor_si128(st[1], st[2])
  IN Xor64(x0[1], x0[2])

\* the four words packed pairwise, [v0,v1] and [v2,v3]
x86_from_state_pairwise(a) == <<<<a[1], a[2]>>, <<a[3], a[4]>>>>

\* the conversion between the logical array and the vector layout
x86_from_state(a) == <<<<a[1], a[3]>>, <<a[2], a[4]>>>>

x86_inspect_state(st) == <<st[1][1], st[2][1], st[1][2], st[2][2]>>

\* ---- the portable realisation (siphash/generic.rs) ----
generic_from_keys(k0, k1) ==
  <<Xor64(k0, SIPHASH_MAG1), Xor64(k1, SIPHASH_MAG2),
    Xor64(k0, SIPHASH_MAG3), Xor64(k1, SIPHASH_MAG4)>>

generic_update_before_rounds(st, word) == <<st[1], st[2], st[3], Xor64(st[4], word)>>

generic_update_after_rounds(st, word) == <<Xor64(st[1], word), st[2], st[3], st[4]>>

generic_update_before_final(st) == <<st[1], st[2], Xor64(st[3], U64(255)), st[4]>>

generic_finish(st) == Xor64(Xor64(st[1], st[2]), Xor64(st[3], st[4]))

generic_round(st) ==
  Bind(Add64(st[1], st[2]), LAMBDA a0 :
  Bind(Xor64(Rotl64(st[2], 13), a0), LAMBDA b0 :
  Bind(Rotl64(a0, 32), LAMBDA a1 :
  Bind(Add64(st[3], st[4]), LAMBDA c0 :
  Bind(Xor64(Rotl64(st[4], 16), c0), LAMBDA d0 :
  Bind(Add64(a1, d0), LAMBDA a2 :
  Bind(Xor64(Rotl64(d0, 21), a2), LAMBDA d1 :
  Bind(Add64(c0, b0), LAMBDA c1 :
  Bind(Xor64(Rotl64(b0, 17), c1), LAMBDA b1 :
  Bind(Rotl64(c1, 32), LAMBDA c2 :
    <<a2, b1, c2, d1>>))))))))))

generic_from_state(a) == a

generic_inspect_state(st) == st

\* ---- SipHashState (siphash.rs), dispatching to the selected realisation ----
from_keys(sys, k0, k1) ==
  IF sys = "generic" THEN generic_from_keys(k0, k1) ELSE x86_from_keys(k0, k1)

from_state(sys, a) ==
  IF sys = "generic" THEN generic_from_state(a) ELSE x86_from_state(a)

inspect_state(sys, st) ==
  IF sys = "generic" THEN generic_inspect_state(st) ELSE x86_inspect_state(st)

update_before_rounds(sys, st, word) ==
  IF sys = "generic" THEN generic_update_before_rounds(st, word)
                     ELSE x86_update_before_rounds(st, word)

update_after_rounds(sys, st, word) ==
  IF sys = "generic" THEN generic_update_after_rounds(st, word)
                     ELSE x86_update_after_rounds(st, word)

update_before_final(sys, st) ==
  IF sys = "generic" THEN generic_update_before_final(st)
                     ELSE x86_update_before_final(st)

state_finish(sys, st) ==
  IF sys = "generic" THEN generic_finish(st) ELSE x86_finish(st)

round(sys, st) ==
  IF sys = "generic" THEN generic_round(st) ELSE x86_round(sys, st)

\* for _ in 0..R { self.round() }
Rounds(sys, st, R) ==
  LET after[n \in 0..R] ==
        IF n = 0 THEN st ELSE Bind(after[n - 1], LAMBDA prev : round(sys, prev))
  IN after[R]

update_and_round(sys, st, R, val) ==
  update_after_rounds(sys, Rounds(sys, update_before_rounds(sys, st, val), R), val)

update_and_final(sys, st, R) ==
  state_finish(sys, Rounds(sys, update_before_final(sys, st), R))

(***************************************************************************)
(* Byte order of the target.  A target is [sys, endian]; the x86           *)
(* realisations are little-endian.                                         *)
(***************************************************************************)
\* u64::to_le
to_le(endian, x) == IF endian = "little" THEN x ELSE swap_bytes(x)

\* u64::from_ne_bytes
from_ne_bytes(endian, b) == IF endian = "little" THEN from_le_bytes(b) ELSE from_be_bytes(b)

\* the bytes of a u64 as they lie in memory (transmute::<&mut u64, &mut [u8; 8]>)
to_ne_bytes(endian, x) ==
  LET b == BytesOf(x)
  IN IF endian = "little" THEN b ELSE <<b[8], b[7], b[6], b[5], b[4], b[3], b[2], b[1]>>

\* <[u8]>::as_chunks::<8>: the full 8-byte chunks and the remainder
Chunks(s) == [i \in 1..(Len(s) \div 8) |-> SubSeq(s, 8 * (i - 1) + 1, 8 * i)]

\* a remainder that keeps a whole last group of 8 instead of being empty
Remainder_upto8(s) ==
  IF Len(s) = 0 THEN <<>> ELSE SubSeq(s, 8 * ((Len(s) - 1) \div 8) + 1, Len(s))

Remainder(s) == SubSeq(s, 8 * (Len(s) \div 8) + 1, Len(s))

\* v[..rem.len()].copy_from_slice(rem) on v = [fill; 8]
PadTo8(rem, fill) == [i \in 1..8 |-> IF i <= Len(rem) THEN rem[i] ELSE fill]

Min(a, b) == IF a <= b THEN a ELSE b

\* update(word) for each word of ws in order, each update being update_and_round::<C>
AbsorbAll(sys, c, st, ws) ==
  LET after[n \in 0..Len(ws)] ==
        IF n = 0 THEN st
        ELSE Bind(after[n - 1], LAMBDA prev : update_and_round(sys, prev, c, ws[n]))
  IN after[Len(ws)]

(***************************************************************************)
(* RawSipHasher<C, D>: a SipHashState                                      *)
(***************************************************************************)
raw_from_keys(sys, k0, k1) == from_keys(sys, k0, k1)

raw_update(sys, c, st, word) == update_and_round(sys, st, c, word)

\* let state = *self; state.0.update_and_final::<D>().to_le()
raw_finish(tgt, d, st) == to_le(tgt.endian, update_and_final(tgt.sys, st, d))

\* finish working on *self instead of a copy
raw_after_finish_inplace(tgt, d, st) == update_before_final(tgt.sys, st)

\* what finish(&self) leaves in *self
raw_after_finish(tgt, d, st) == st

\* update_from_bytes passing the padded remainder also when it is empty
update_from_bytes_words_alwayspad(bs) ==
  [i \in 1..Len(Chunks(bs)) |-> from_le_bytes(Chunks(bs)[i])]
    \o <<from_le_bytes(PadTo8(Remainder(bs), 0))>>

\* the words update_from_bytes passes to update, in order
update_from_bytes_words(bs) ==
  LET chunks == Chunks(bs)
      rem    == Remainder(bs)
      v      == PadTo8(rem, 0)
  IN [i \in 1..Len(chunks) |-> from_le_bytes(chunks[i])]
       \o (IF rem # <<>> THEN <<from_le_bytes(v)>> ELSE <<>>)

\* update_from_bytes absorbing the length of the slice before its words
update_from_bytes_lenfirst(sys, c, st, bs) ==
  AbsorbAll(sys, c, st, <<U64(Len(bs))>> \o update_from_bytes_words(bs))

update_from_bytes(sys, c, st, bs) == AbsorbAll(sys, c, st, update_from_bytes_words(bs))

\* update_from_string padding like update_from_bytes, with 0x00
update_from_string_words_zeropad(bs) ==
  [i \in 1..Len(Chunks(bs)) |-> from_le_bytes(Chunks(bs)[i])]
    \o <<from_le_bytes(PadTo8(Remainder(bs), 0))>>

\* the words update_from_string passes to update, in order
update_from_string_words(bs) ==
  LET chunks == Chunks(bs)
      rem    == Remainder(bs)
      v      == PadTo8(rem, 255)
  IN [i \in 1..Len(chunks) |-> from_le_bytes(chunks[i])] \o <<from_le_bytes(v)>>

update_from_string(sys, c, st, bs) == AbsorbAll(sys, c, st, update_from_string_words(bs))

(***************************************************************************)
(* SipHasher<C, D>: [state, tail, ntail, bytes]                            *)
(***************************************************************************)
new_with_keys(sys, k0, k1) ==
  [state |-> from_keys(sys, k0, k1), tail |-> Zero64, ntail |-> 0, bytes |-> 0]

\* write, up to the early return: the tail topped up from the front of s
\*   required, the tail after the copy, and whether the tail reached 8 bytes
TopUp(tgt, h, s) ==
  LET required == Min(Len(s), 8 - h.ntail)
      mem      == to_ne_bytes(tgt.endian, h.tail)
      filled   == [i \in 1..8 |->
                     IF i > h.ntail /\ i <= h.ntail + required THEN s[i - h.ntail]
                                                               ELSE mem[i]]
  IN [required |-> required,
      tail     |-> from_ne_bytes(tgt.endian, filled),
      full     |-> (required + h.ntail = 8)]

\* the words SipHasher::write passes to update, in order
write_words(tgt, h, s) ==
  IF h.ntail > 0
    THEN LET t == TopUp(tgt, h, s)
             r == SubSeq(s, t.required + 1, Len(s))
             chunks == Chunks(r)
         IN IF t.full
              THEN <<to_le(tgt.endian, t.tail)>>
                     \o [i \in 1..Len(chunks) |-> from_ne_bytes(tgt.endian, chunks[i])]
              ELSE <<>>
    ELSE LET chunks == Chunks(s)
         IN [i \in 1..Len(chunks) |-> from_ne_bytes(tgt.endian, chunks[i])]

\* self.tail after write: the only store to it is the copy of the top-up
write_tail(tgt, h, s) == IF h.ntail > 0 THEN TopUp(tgt, h, s).tail ELSE h.tail

\* write ending in self.ntail = s.len() instead of remainder.len()
write_ntail_whole(tgt, h, s) ==
  IF h.ntail > 0
    THEN IF TopUp(tgt, h, s).full
           THEN Len(SubSeq(s, TopUp(tgt, h, s).required + 1, Len(s)))
           ELSE h.ntail
    ELSE Len(s)

\* self.ntail after write: untouched by the early return, else remainder.len()
write_ntail(tgt, h, s) ==
  IF h.ntail > 0
    THEN IF TopUp(tgt, h, s).full
           THEN Len(Remainder(SubSeq(s, TopUp(tgt, h, s).required + 1, Len(s))))
           ELSE h.ntail
    ELSE Len(Remainder(s))

\* self.bytes counted after the top-up, so not by a write that returns early
write_bytes_afterreturn(tgt, h, s) ==
  IF h.ntail > 0 /\ ~TopUp(tgt, h, s).full THEN h.bytes ELSE h.bytes + Len(s)

\* self.bytes += s.len(), the first statement of write
write_bytes(tgt, h, s) == h.bytes + Len(s)

\* SipHasher::write
write(tgt, c, h, s) ==
  [state |-> AbsorbAll(tgt.sys, c, h.state, write_words(tgt, h, s)),
   tail  |-> write_tail(tgt, h, s),
   ntail |-> write_ntail(tgt, h, s),
   bytes |-> write_bytes(tgt, h, s)]

\* the final word without the length byte
LengthTag_absent(h) == Zero64

\* ((self.bytes as u64) & 0xFF) << 56
LengthTag(h) == Shl64(And64(U64(h.bytes), U64(255)), 56)

\* (2u64 << ((self.ntail) << 3) - 1) - 1
TailMask(h) == Sub64(Shl64(U64(2), (h.ntail * 8) - 1), U64(1))

\* the final word SipHasher::finish passes to update
finish_word(tgt, h) ==
  IF h.ntail > 0
    THEN LET w0 == to_le(tgt.endian, h.tail)
             w1 == IF tgt.endian = "big" THEN Shr64(w0, (8 - h.ntail) * 8) ELSE w0
             w2 == And64(w1, TailMask(h))
         IN IF h.ntail # 8 THEN Or64(w2, LengthTag(h)) ELSE w2
    ELSE LengthTag(h)

\* SipHasher::finish
finish(tgt, c, d, h) ==
  Bind(update_and_round(tgt.sys, h.state, c, finish_word(tgt, h)), LAMBDA st :
    to_le(tgt.endian, update_and_final(tgt.sys, st, d)))

\* finish absorbing the final word into self.state instead of a copy
after_finish_inplace(tgt, c, d, h) ==
  [h EXCEPT !.state = update_and_round(tgt.sys, h.state, c, finish_word(tgt, h))]

\* what finish(&self) leaves in *self: it works on `let mut state = *self`
after_finish(tgt, c, d, h) == h

\* self.tail.to_le() | (!0) << (self.ntail << 3), after the write of write_str
write_str_word(tgt, h) ==
  Or64(to_le(tgt.endian, h.tail),
       Shl64(W64(\Hffff, \Hffff, \Hffff, \Hffff), h.ntail * 8))

\* SipHasher::write_str (feature nightly-prefixfree_extras)
write_str(tgt, c, h, s) ==
  Bind(write(tgt, c, h, s), LAMBDA w :
    [state |-> update_and_round(tgt.sys, w.state, c, write_str_word(tgt, w)),
     tail  |-> Zero64,
     ntail |-> 0,
     bytes |-> w.bytes])

\* ---- SiphashRng (rng.rs) ----
\* SiphashRng::new_with_keys
rng_new_with_keys(sys, k0, k1) == raw_from_keys(sys, k0, k1)

\* tick_with_ingest returning the finish of the state after both updates
tick_with_ingest_val_afterboth(tgt, c, d, st, word0, word1) ==
  raw_finish(tgt, d, raw_update(tgt.sys, c, raw_update(tgt.sys, c, st, word0), word1))

\* the value of tick_with_ingest: self.0.update(word0); let val = self.0.finish()
tick_with_ingest_val(tgt, c, d, st, word0, word1) ==
  raw_finish(tgt, d, raw_update(tgt.sys, c, st, word0))

\* the hasher tick_with_ingest leaves: update(word0), finish on a copy, update(word1)
tick_with_ingest_state(tgt, c, d, st, word0, word1) ==
  Bind(raw_update(tgt.sys, c, st, word0), LAMBDA s1 :
    raw_update(tgt.sys, c, raw_after_finish(tgt, d, s1), word1))

\* the two words tick passes to tick_with_ingest
TickWord0 == W64(\H82d1, \Hade6, \H527f, \H510e)

TickWord1 == W64(\H6c1f, \H2b3e, \H688c, \H9b05)

(***************************************************************************)
(* Panic sites (overflow checks and slice bounds)                          *)
(***************************************************************************)
\* write: 8 - self.ntail and [self.ntail..] on the tail's eight bytes
write_panics(h, s) == h.ntail > 8

\* finish: (2u64 << 8*ntail - 1) - 1 underflows once the shift clears the word,
\* and the shift itself overflows from ntail = 9 on
finish_panics(h) == h.ntail > 0 /\ (h.ntail * 8) - 1 >= 63

\* write_str: (!0) << (self.ntail << 3) on the hasher its write left
write_str_panics(h) == h.ntail * 8 >= 64

(***************************************************************************)
(* Inputs                                                                  *)
(***************************************************************************)
\* bounds of the model
MaxWrites == 2

MaxRawOps == 2

MaxStateOps == 3

MaxFinish == 2

MaxZeros == 9

MaxStrLen == 8

MaxTicks == 3

\* the SipHash-2-4 test vector of lib.rs
KatK0 == W64(\H0706, \H0504, \H0302, \H0100)

KatK1 == W64(\H0f0e, \H0d0c, \H0b0a, \H0908)

KatData == <<0, 1, 2, 3, 4, 5, 6, 7, 8, 9, 10, 11, 12, 13, 14>>

KatExpected == W64(\Ha129, \Hca61, \H49be, \H45e5)

AltK0 == W64(\H8000, \H0000, \H0000, \H0001)

AltK1 == W64(\Hffff, \H0123, \H4567, \H89ab)

ZeroStream == [i \in 1..MaxZeros |-> 0]

MixStream == <<1, 128, 255, 0, 65, 2, 254, 3, 4, 200>>

TextStream == <<65, 0, 65, 65, 0, 0, 65, 0, 65>>

TextBytes == {0, 65}

InputWords == {Zero64, W64(\H8000, \H00ff, \H0000, \H0001)}

Targets ==
  { [sys |-> "generic", endian |-> "little"],
    [sys |-> "generic", endian |-> "big"],
    [sys |-> "avx2", endian |-> "little"],
    [sys |-> "sse3", endian |-> "little"] }

RoundCounts == { <<0, 0>>, <<0, 1>>, <<1, 0>>, <<1, 3>>, <<2, 4>> }

KatScenarios ==
  { [keys |-> <<KatK0, KatK1>>, rounds |-> <<2, 4>>, stream |-> KatData] }

SipScenarios ==
  { [keys |-> <<AltK0, AltK1>>, rounds |-> r, stream |-> ZeroStream] : r \in RoundCounts }
    \cup { [keys |-> <<Zero64, Zero64>>, rounds |-> r, stream |-> MixStream] :
             r \in { <<1, 3>>, <<0, 0>> } }

\* SipHasher of a build with the feature nightly-prefixfree_extras
StrScenarios ==
  { [keys |-> <<AltK0, AltK1>>, rounds |-> <<1, 3>>, stream |-> SubSeq(TextStream, 1, 8)] }

\* write_str is the same code on every backend; its targets are the two byte orders
StrTargets == { t \in Targets : t.sys = "generic" }

RngScenarios ==
  { [keys |-> <<KatK0, KatK1>>, rounds |-> <<2, 4>>, stream |-> <<>>] }

RawScenarios ==
  { [keys |-> <<KatK0, KatK1>>, rounds |-> <<1, 3>>, stream |-> TextStream] }

StateScenarios ==
  { [keys |-> <<KatK0, KatK1>>, rounds |-> <<2, 4>>, stream |-> <<>>] }

(***************************************************************************)
(* The state machine: one hasher (or bare state) driven by its operations  *)
(***************************************************************************)
VARIABLES
  kind,      \* "sip": a SipHasher, "raw": a RawSipHasher, "state": a SipHashState
  target,    \* the build: [sys, endian]
  C, D,      \* the round counts of the type
  keys,      \* <<k0, k1>> the object was built from
  stream,    \* the bytes the byte-slice arguments are cut from, in order
  state, tail, ntail, bytes,   \* the fields (tail, ntail, bytes: SipHasher only)
  written,   \* all bytes passed so far
  lastLen,   \* length of the byte slice passed by the last call
  absorbed,  \* all words passed to update so far
  lastWords, \* the words passed to update by the last call
  digests,   \* the values finish returned since the last mutating call
  resumed,   \* a mutating call followed a finish call
  lastOp,    \* the last operation
  nops,      \* number of mutating calls so far
  panicked   \* an operation panicked

vars == <<kind, target, C, D, keys, stream, state, tail, ntail, bytes, written, lastLen,
          absorbed, lastWords, digests, resumed, lastOp, nops, panicked>>

config == <<kind, target, C, D, keys, stream>>

hasher == [state |-> state, tail |-> tail, ntail |-> ntail, bytes |-> bytes]

Start(k, tgt, sc) ==
  /\ kind = k
  /\ target = tgt
  /\ C = sc.rounds[1]
  /\ D = sc.rounds[2]
  /\ keys = sc.keys
  /\ stream = sc.stream
  /\ state = from_keys(tgt.sys, sc.keys[1], sc.keys[2])
  /\ tail = Zero64
  /\ ntail = 0
  /\ bytes = 0
  /\ written = <<>>
  /\ lastLen = 0
  /\ absorbed = <<>>
  /\ lastWords = <<>>
  /\ digests = <<>>
  /\ resumed = FALSE
  /\ lastOp = "new"
  /\ nops = 0
  /\ panicked = FALSE

InitKat == \E tgt \in Targets, sc \in KatScenarios : Start("sip", tgt, sc)

InitSip == \E tgt \in Targets, sc \in SipScenarios : Start("sip", tgt, sc)

InitRaw == \E tgt \in Targets, sc \in RawScenarios : Start("raw", tgt, sc)

InitState == \E tgt \in Targets, sc \in StateScenarios : Start("state", tgt, sc)

InitStr == \E tgt \in StrTargets, sc \in StrScenarios : Start("str", tgt, sc)

InitRng == \E tgt \in Targets, sc \in RngScenarios : Start("rng", tgt, sc)

Init == InitSip \/ InitRaw \/ InitState \/ InitStr \/ InitRng

MaxOps == CASE kind = "sip" -> MaxWrites
            [] kind = "str" -> MaxWrites
            [] kind = "rng" -> MaxTicks
            [] kind = "raw" -> MaxRawOps
            [] OTHER        -> MaxStateOps

CanMutate(k) == kind = k /\ ~panicked /\ nops < MaxOps

CanFinish(k) == kind = k /\ ~panicked /\ Len(digests) < MaxFinish

\* the next n bytes of the stream
NextBytes(n) == SubSeq(stream, Len(written) + 1, Len(written) + n)

Room == Len(stream) - Len(written)

Panic(op) ==
  /\ panicked' = TRUE
  /\ lastOp' = op
  /\ UNCHANGED <<config, state, tail, ntail, bytes, written, lastLen, absorbed, lastWords,
                 digests, resumed, nops>>

\* a mutating call that passed the slice s and the words ws
Mutated(op, s, ws) ==
  /\ written' = written \o s
  /\ lastLen' = Len(s)
  /\ absorbed' = absorbed \o ws
  /\ lastWords' = ws
  /\ digests' = <<>>
  /\ resumed' = (resumed \/ digests # <<>>)
  /\ lastOp' = op
  /\ nops' = nops + 1
  /\ UNCHANGED <<config, panicked>>

\* a finish call that returned v
Finished(v) ==
  /\ digests' = Append(digests, v)
  /\ lastOp' = "finish"
  /\ UNCHANGED <<config, written, lastLen, absorbed, lastWords, resumed, nops, panicked>>

\* the kinds of instance that are a SipHasher: without and with write_str
SipKinds == {"sip", "str"}

\* a &str holds valid UTF-8; the model passes ASCII
IsStr(s) == \A i \in 1..Len(s) : s[i] < 128

\* ---- SipHasher ----
Write(n) ==
  /\ \E k \in SipKinds : CanMutate(k)
  /\ \E s \in {NextBytes(n)} :
       IF write_panics(hasher, s)
         THEN Panic("write")
         ELSE \E h \in {write(target, C, hasher, s)} :
                /\ state' = h.state
                /\ tail' = h.tail
                /\ ntail' = h.ntail
                /\ bytes' = h.bytes
                /\ Mutated("write", s, write_words(target, hasher, s))

Finish ==
  /\ \E k \in SipKinds : CanFinish(k)
  /\ IF finish_panics(hasher)
       THEN Panic("finish")
       ELSE \E h \in {after_finish(target, C, D, hasher)} :
              /\ state' = h.state
              /\ tail' = h.tail
              /\ ntail' = h.ntail
              /\ bytes' = h.bytes
              /\ Finished(finish(target, C, D, hasher))

WriteStr(n) ==
  /\ CanMutate("str")
  /\ \E s \in {NextBytes(n)} :
       /\ IsStr(s)
       /\ IF write_panics(hasher, s) \/ write_str_panics(write(target, C, hasher, s))
            THEN Panic("write_str")
            ELSE \E h \in {write_str(target, C, hasher, s)} :
                   /\ state' = h.state
                   /\ tail' = h.tail
                   /\ ntail' = h.ntail
                   /\ bytes' = h.bytes
                   /\ Mutated("write_str", s,
                              Append(write_words(target, hasher, s),
                                     write_str_word(target, write(target, C, hasher, s))))

\* ---- RawSipHasher ----
RawUpdate(w) ==
  /\ CanMutate("raw")
  /\ state' = raw_update(target.sys, C, state, w)
  /\ UNCHANGED <<tail, ntail, bytes>>
  /\ Mutated("update", <<>>, <<w>>)

RawUpdateFromBytes(n) ==
  /\ CanMutate("raw")
  /\ \E s \in {NextBytes(n)} :
       /\ state' = update_from_bytes(target.sys, C, state, s)
       /\ UNCHANGED <<tail, ntail, bytes>>
       /\ Mutated("update_from_bytes", s, update_from_bytes_words(s))

RawUpdateFromString(n) ==
  /\ CanMutate("raw")
  /\ \E s \in {NextBytes(n)} :
       /\ state' = update_from_string(target.sys, C, state, s)
       /\ UNCHANGED <<tail, ntail, bytes>>
       /\ Mutated("update_from_string", s, update_from_string_words(s))

RawFinish ==
  /\ CanFinish("raw")
  /\ state' = raw_after_finish(target, D, state)
  /\ UNCHANGED <<tail, ntail, bytes>>
  /\ Finished(raw_finish(target, D, state))

\* ---- SiphashRng ----
\* a tick that ingested word0 and word1 and returned v
Ticked(op, word0, word1, v) ==
  /\ absorbed' = absorbed \o <<word0, word1>>
  /\ lastWords' = <<word0, word1>>
  /\ digests' = Append(digests, v)
  /\ lastOp' = op
  /\ nops' = nops + 1
  /\ UNCHANGED <<config, tail, ntail, bytes, written, lastLen, resumed, panicked>>

TickWithIngest(word0, word1) ==
  /\ CanMutate("rng")
  /\ state' = tick_with_ingest_state(target, C, D, state, word0, word1)
  /\ Ticked("tick_with_ingest", word0, word1,
            tick_with_ingest_val(target, C, D, state, word0, word1))

\* self.tick_with_ingest(0x510e527fade682d1, 0x9b05688c2b3e6c1f)
Tick ==
  /\ CanMutate("rng")
  /\ state' = tick_with_ingest_state(target, C, D, state, TickWord0, TickWord1)
  /\ Ticked("tick", TickWord0, TickWord1,
            tick_with_ingest_val(target, C, D, state, TickWord0, TickWord1))

\* ---- SipHashState ----
StateUpdateBeforeRounds(w) ==
  /\ CanMutate("state")
  /\ state' = update_before_rounds(target.sys, state, w)
  /\ UNCHANGED <<tail, ntail, bytes>>
  /\ Mutated("update_before_rounds", <<>>, <<w>>)

StateRound ==
  /\ CanMutate("state")
  /\ state' = round(target.sys, state)
  /\ UNCHANGED <<tail, ntail, bytes>>
  /\ Mutated("round", <<>>, <<>>)

StateUpdateAfterRounds(w) ==
  /\ CanMutate("state")
  /\ state' = update_after_rounds(target.sys, state, w)
  /\ UNCHANGED <<tail, ntail, bytes>>
  /\ Mutated("update_after_rounds", <<>>, <<w>>)

StateUpdateBeforeFinal ==
  /\ CanMutate("state")
  /\ state' = update_before_final(target.sys, state)
  /\ UNCHANGED <<tail, ntail, bytes>>
  /\ Mutated("update_before_final", <<>>, <<>>)

\* from_state(inspect_state()): the state rebuilt from its logical array
StateRoundTrip ==
  /\ CanMutate("state")
  /\ state' = from_state(target.sys, inspect_state(target.sys, state))
  /\ UNCHANGED <<tail, ntail, bytes>>
  /\ Mutated("from_state", <<>>, <<>>)

\* finish(self) on a copy of the state
StateFinish ==
  /\ CanFinish("state")
  /\ UNCHANGED <<state, tail, ntail, bytes>>
  /\ Finished(state_finish(target.sys, state))

NextSip ==
  \/ \E n \in 0..Room : Write(n)
  \/ Finish

NextRaw ==
  \/ \E w \in InputWords : RawUpdate(w)
  \/ \E n \in 0..Room : RawUpdateFromBytes(n)
  \/ \E n \in 0..Room : RawUpdateFromString(n)
  \/ RawFinish

NextState ==
  \/ \E w \in InputWords : StateUpdateBeforeRounds(w)
  \/ StateRound
  \/ \E w \in InputWords : StateUpdateAfterRounds(w)
  \/ StateUpdateBeforeFinal
  \/ StateRoundTrip
  \/ StateFinish

NextStr ==
  \/ \E n \in 0..Room : Write(n)
  \/ \E n \in 0..Room : WriteStr(n)
  \/ Finish

NextRng ==
  \/ \E word0, word1 \in InputWords : TickWithIngest(word0, word1)
  \/ Tick

Next == NextSip \/ NextRaw \/ NextState \/ NextStr \/ NextRng

SpecKat == InitKat /\ [][NextSip]_vars

SpecSip == InitSip /\ [][NextSip]_vars

SpecRaw == InitRaw /\ [][NextRaw]_vars

SpecState == InitState /\ [][NextState]_vars

SpecStr == InitStr /\ [][NextStr]_vars

SpecRng == InitRng /\ [][NextRng]_vars

Spec == Init /\ [][Next]_vars

(***************************************************************************)
(* Properties                                                              *)
(***************************************************************************)
\* a fresh SipHasher with these keys, fed m by one write
OneWrite(tgt, c, k, m) == write(tgt, c, new_with_keys(tgt.sys, k[1], k[2]), m)

\* the final word of the reference framing: the remaining len(m) mod 8 bytes in the
\* low bytes, zeros between, len(m) mod 256 in the most-significant byte
RefFinalWord(m) ==
  Or64(from_le_bytes(PadTo8(Remainder(m), 0)), Shl64(U64(Len(m) % 256), 56))

\* the reference SipHash-C-D digest of m: from_keys, the 8-byte little-endian words
\* of m, the final word, xor 0xff into s2, D rounds, the xor of the four words
RefDigest(sys, c, d, k, m) ==
  update_and_final(sys,
    AbsorbAll(sys, c, from_keys(sys, k[1], k[2]),
              [i \in 1..Len(Chunks(m)) |-> from_le_bytes(Chunks(m)[i])]
                \o <<RefFinalWord(m)>>),
    d)

\* the hasher of the machine has returned a digest for what was written so far
HasDigest == kind = "sip" /\ ~panicked /\ digests # <<>>

\* C1: a fresh SipHasher<2,4> with the test vector's keys, after one write of the
\* bytes 0x00..0x0E, returns 0xa129ca6149be45e5 from finish()
C1_KnownAnswer ==
  (HasDigest /\ C = 2 /\ D = 4 /\ keys = <<KatK0, KatK1>> /\ nops = 1 /\ written = KatData)
    => digests[1] = KatExpected

\* C2: write(m[0..i]) followed by write(m[i..]) on a fresh hasher returns the same
\* finish() value as write(m) on a fresh hasher
C2_SplitWriteEquivalence ==
  (HasDigest /\ nops = 2)
    => digests[1] = finish(target, C, D, OneWrite(target, C, keys, written))

\* C3: finish() of a fresh hasher that was written m equals the reference
\* SipHash-C-D digest of m
C3_CanonicalFraming ==
  (HasDigest /\ nops >= 1)
    => digests[1] = to_le(target.endian, RefDigest(target.sys, C, D, keys, written))

\* C4: the vectorized round() on lanes A = [v0,v2], B = [v1,v3] produces the logical
\* state of the canonical scalar round, for every logical state
C4_BackendEquivalence ==
  (kind = "state" /\ target.sys # "generic")
    => x86_inspect_state(x86_round(target.sys, state)) = generic_round(x86_inspect_state(state))

\* C5: consecutive finish() calls with no update or write between them return equal
\* values (RawSipHasher and SipHasher), also after the instance was updated again
C5_IdempotentFinish ==
  kind \in {"sip", "raw"} => \A i, j \in 1..Len(digests) : digests[i] = digests[j]

C5_Witness ==
  kind = "raw" /\ resumed /\ nops = MaxRawOps /\ Len(digests) = MaxFinish /\ ~panicked

\* C6: a finish() call leaves the state words, tail, ntail and byte count of the
\* instance unchanged
C6_FinishNonDestructive ==
  [][(lastOp' = "finish" /\ Len(digests') > Len(digests))
       => state' = state /\ tail' = tail /\ ntail' = ntail /\ bytes' = bytes]_vars

C6_Witness ==
  kind = "sip" /\ lastOp = "finish" /\ resumed /\ ntail > 0 /\ bytes > ntail

Strings == UNION { [1..n -> TextBytes] : n \in 0..MaxStrLen }

\* every string with the words update_from_string passes to update for it
StringEncodings == { <<t, update_from_string_words(t)>> : t \in Strings }

IsPrefix(a, b) == Len(a) <= Len(b) /\ SubSeq(b, 1, Len(a)) = a

\* the slice passed by the last call
LastSlice == SubSeq(written, Len(written) - lastLen + 1, Len(written))

\* C8: the words update_from_string passes to update for a string are no prefix of
\* the words for any other string, nor the other way round, and the final word is
\* always passed
C8_PrefixFree ==
  (kind = "raw" /\ lastOp = "update_from_string")
    => /\ Len(lastWords) = (lastLen \div 8) + 1
       /\ \A e \in StringEncodings :
            e[1] # LastSlice => ~IsPrefix(lastWords, e[2]) /\ ~IsPrefix(e[2], lastWords)

C8_Witness ==
  kind = "raw" /\ lastOp = "update_from_string" /\ lastLen = 8 /\ Len(lastWords) = 2

Zeros(n) == [i \in 1..n |-> 0]

\* the digest of a fresh hasher of the machine's type and keys fed n zero bytes
ZeroDigest(n) == finish(target, C, D, OneWrite(target, C, keys, Zeros(n)))

\* the hasher of the machine was fed zero bytes only and has returned a digest
ZerosHashed == HasDigest /\ stream = ZeroStream

\* C9 as stated: N zero bytes and N+1 zero bytes give different finish() values
C9_LengthSensitivityAnyRounds ==
  ZerosHashed => digests[1] # ZeroDigest(Len(written) + 1)

\* C9: with at least one round (C + D >= 1), N zero bytes and N+1 zero bytes give
\* different finish() values
C9_LengthSensitivity ==
  (ZerosHashed /\ C + D >= 1) => digests[1] # ZeroDigest(Len(written) + 1)

C9_Witness ==
  ZerosHashed /\ C + D >= 1 /\ Len(written) = 8 /\ nops = 1

IsU64(w) == Len(w) = 4 /\ \A i \in 1..4 : w[i] \in 0..(LimbBase - 1)

GroupByte(s, i, k) == IF 8 * (i - 1) + k <= Len(s) THEN s[8 * (i - 1) + k] ELSE 0

\* the number of 8-byte groups that cover n bytes
GroupCount(n) == (n \div 8) + (IF n % 8 = 0 THEN 0 ELSE 1)

\* C11: update_from_bytes passes to update, in order, one word per full 8-byte chunk
\* read little-endian, then the 1..7 remaining bytes zero-padded only if the length
\* is no multiple of 8; the empty input leaves the state unchanged
C11_UpdateFromBytesChunking ==
  [][(lastOp' = "update_from_bytes" /\ nops' = nops + 1)
       => /\ Len(lastWords') = GroupCount(lastLen')
          /\ \A i \in 1..Len(lastWords') :
               BytesOf(lastWords'[i]) = [k \in 1..8 |-> GroupByte(LastSlice', i, k)]
          /\ state' = AbsorbAll(target.sys, C, state, lastWords')
          /\ (lastLen' = 0 => state' = state)]_vars

C11_Witness ==
  kind = "raw" /\ lastOp = "update_from_bytes" /\ lastLen = 8 /\ Len(lastWords) = 1
    /\ nops = MaxRawOps
\* the logical state the keys k = <<k0, k1>> stand for
KeyedState(k) ==
  <<Xor64(k[1], W64(\H736f, \H6d65, \H7073, \H6575)),
    Xor64(k[2], W64(\H646f, \H7261, \H6e64, \H6f6d)),
    Xor64(k[1], W64(\H6c79, \H6765, \H6e65, \H7261)),
    Xor64(k[2], W64(\H7465, \H6462, \H7974, \H6573))>>

\* C12: from_keys(k0, k1) yields s0 = k0 xor 0x736f6d6570736575,
\* s1 = k1 xor 0x646f72616e646f6d, s2 = k0 xor 0x6c7967656e657261,
\* s3 = k1 xor 0x7465646279746573, held as [s0,s1,s2,s3] by the scalar layout and
\* as lanes [s0,s2], [s1,s3] by the vectorized layout
C12_FromKeys ==
  nops = 0
    => state = IF target.sys = "generic"
                 THEN KeyedState(keys)
                 ELSE <<<<KeyedState(keys)[1], KeyedState(keys)[3]>>,
                        <<KeyedState(keys)[2], KeyedState(keys)[4]>>>>

C12_Witness ==
  nops = 0 /\ kind = "sip" /\ target.sys = "sse3" /\ keys = <<AltK0, AltK1>>
    /\ lastOp = "finish"
\* C13: after any sequence of write calls on a fresh hasher, ntail is the total
\* number of bytes written mod 8 and the first ntail bytes of the tail are the
\* last ntail bytes of the concatenated input
C13_TailInvariant ==
  (kind = "sip" /\ ~panicked)
    => /\ ntail = Len(written) % 8
       /\ SubSeq(to_ne_bytes(target.endian, tail), 1, ntail)
            = SubSeq(written, Len(written) - ntail + 1, Len(written))
\* C14: after any sequence of write calls on a fresh hasher, the words passed to
\* update are the first floor(total / 8) 8-byte little-endian words of the
\* concatenated input, in stream order, each once (stated for the little-endian
\* targets, where the native words write reads are little-endian words)
C14_AbsorptionOrder ==
  (kind = "sip" /\ ~panicked /\ target.endian = "little")
    => absorbed = [i \in 1..(Len(written) \div 8) |->
                     from_le_bytes(SubSeq(written, 8 * (i - 1) + 1, 8 * i))]
\* C15: the bytes field is the sum of the lengths of all slices passed to write,
\* also those of writes that only top up the tail, and finish leaves it alone
C15_ByteCount ==
  kind = "sip" => bytes = Len(written)

C15_Witness ==
  kind = "sip" /\ lastOp = "finish" /\ nops = 2 /\ lastLen > 0 /\ lastWords = <<>>
    /\ bytes > lastLen /\ bytes < 8
\* the lane-wise left rotation that rotate_lanes_epi64 is to compute
RotateLanes(v, count) ==
  <<Rotl64(v[1], (count[1])[1]), Rotl64(v[2], (count[2])[1])>>

RoundRotates ==
  { mm_set_epi64x(U64(16), U64(13)), mm_set_epi64x(U64(21), U64(17)) }

\* C16: on the vector backends, for both count vectors used by round and each
\* of the two lane pairs of the state, rotate_lanes_epi64 returns in lane i the
\* left rotation of lane i of the vector by lane i of the count
C16_RotateLanes ==
  (kind = "state" /\ target.sys # "generic")
    => \A count \in RoundRotates : \A i \in 1..2 :
         rotate_lanes_epi64(target.sys, state[i], count) = RotateLanes(state[i], count)
\* the logical words s0..s3 in a backend's layout: the array itself in the
\* scalar backend, [s0, s2] and [s1, s3] in the two vectors of the x86 backend
LogicalWords(sys, st) ==
  IF sys = "generic" THEN st ELSE <<st[1][1], st[2][1], st[1][2], st[2][2]>>

\* C17: update_before_rounds(word) xors word into s3, update_after_rounds(word)
\* xors it into s0, update_before_final xors 0xff into s2, and each leaves the
\* other three logical words as they were, in every backend layout
C17_InjectionFrame ==
  [][(kind = "state" /\ nops' = nops + 1)
       => /\ lastOp' = "update_before_rounds"
               => LogicalWords(target.sys, state')
                    = [LogicalWords(target.sys, state) EXCEPT ![4] = Xor64(@, lastWords'[1])]
          /\ lastOp' = "update_after_rounds"
               => LogicalWords(target.sys, state')
                    = [LogicalWords(target.sys, state) EXCEPT ![1] = Xor64(@, lastWords'[1])]
          /\ lastOp' = "update_before_final"
               => LogicalWords(target.sys, state')
                    = [LogicalWords(target.sys, state) EXCEPT ![3] = Xor64(@, U64(255))]]_vars

C17_Witness ==
  kind = "state" /\ target.sys = "sse3" /\ lastOp = "update_before_rounds"
    /\ lastWords # <<Zero64>> /\ nops = MaxStateOps
    /\ LogicalWords(target.sys, state)[1] # Xor64(keys[1], SIPHASH_MAG1)
\* C18: in every state of a SipHasher reached by write, write_str and finish,
\* ntail is at most 7, so no call panics, the shift of finish's mask is in 7..55
\* when there is a tail, and the top byte of the final word is the low byte of
\* the byte count
C18_TailBound ==
  kind \in SipKinds
    => /\ ntail \in 0..7
       /\ ~panicked
       /\ ~finish_panics(hasher)
       /\ ntail > 0 => (8 * ntail) - 1 \in 7..55
       /\ BytesOf(finish_word(target, hasher))[8] = bytes % ByteBase

C18_Witness ==
  kind = "str" /\ lastOp = "finish" /\ digests # <<>> /\ nops = MaxWrites
    /\ ntail = 7 /\ Len(written) = 8 /\ Len(absorbed) = 1
\* the words n calls of tick ingest
TickPattern(n) == [i \in 1..(2 * n) |-> IF i % 2 = 1 THEN TickWord0 ELSE TickWord1]

\* the raw state of the generator's keys after absorbing ws
RngAfter(ws) ==
  AbsorbAll(target.sys, C, rng_new_with_keys(target.sys, keys[1], keys[2]), ws)

OneShot(bs) ==
  update_from_bytes(target.sys, C, raw_from_keys(target.sys, keys[1], keys[2]), bs)

\* C20: when a raw hasher is in the state of one update_from_bytes(a) with
\* len(a) a multiple of 8, update_from_bytes(b) leaves it in the state of one
\* update_from_bytes(a ++ b); after a one-byte a, a one-byte b leaves a
\* different state, since each call pads its own remainder
C20_AlignedSplit ==
  [][(kind = "raw" /\ lastOp' = "update_from_bytes" /\ nops' = nops + 1)
       => /\ (Len(written) % 8 = 0 /\ state = OneShot(written))
               => state' = OneShot(written')
          /\ (Len(written) = 1 /\ lastLen' = 1 /\ state = OneShot(written))
               => state' # OneShot(written')]_vars

C20_Witness ==
  kind = "raw" /\ lastOp = "update_from_bytes" /\ nops = 2 /\ Len(written) = 9
    /\ lastLen = 1 /\ Len(absorbed) = 2 /\ state = OneShot(written)
====
